---- MODULE Spec2Model ----
(***************************************************************************)
(* A model of euler67.cpp: the Triangle container, the generic bottom-up   *)
(* fold_triangle<T>, the two evaluators built on it (max_path and          *)
(* max_odd_even_path) and parse_triangle.                                  *)
(*                                                                         *)
(* The specifications share the variables:                                 *)
(*   Spec         the Triangle container driven by append_row and at       *)
(*   SpecFold     one run of fold_triangle<T>, T the term of the calls     *)
(*   SpecMaxPath  one run of max_path                                      *)
(*   SpecOddEven  one run of max_odd_even_path                             *)
(*                (each on a Triangle drawn from a bounded set, one step   *)
(*                per loop iteration of the source)                        *)
(*   SpecParse    one run of parse_triangle on an input drawn from a       *)
(*                bounded set, one step per getline                        *)
(* Sequences are 1-indexed here and 0-indexed in the source: rows[k] is    *)
(* rows_[k-1], and a row's element n of the source is element n+1 here.    *)
(***************************************************************************)
EXTENDS Integers, Sequences, FiniteSets, TLC

\* ---------------------------------------------------------------- bounds

\* Greatest height of a Triangle built through append_row in Spec.
MaxRows == 3

\* Greatest height of a Triangle handed to fold_triangle in SpecFold.
MaxHeight == 3

\* Greatest number of tokens and line ends in an input of SpecParse.
MaxInput == 7

\* The int values the elements of a Triangle are drawn from: negative, zero
\* and positive, odd and even.
Vals == {-2, -1, 0, 1, 2}

\* The pairs of values a Triangle handed to fold_triangle is made of.
ValPairs == {S \in SUBSET Vals : Cardinality(S) = 2}

\* The values of the rows given to append_row and written through at.
RowVals == {-1, 2}

VARIABLES
    rows,               \* Triangle::rows_
    err,                \* the exception the last call ended with, or "none"
    call,               \* the last call made on the Triangle, with its arguments
    kind,               \* which make_t / combine_t pair fold_triangle was given
    pc,                 \* the position of the running function
    accum,              \* fold_triangle: std::vector<T> accum
    row_iter,           \* fold_triangle: the row row_iter points at (0 = rend)
    accum_iter,         \* fold_triangle: offset of accum_iter from accum.begin()
    i,                  \* fold_triangle: the loop index of the current row
    old,                \* accum as it stood when the current row began
    log,                \* the calls of make_t and combine_t made so far
    result,             \* <<v>> once a function returned v, <<>> before
    rows0,              \* the Triangle as it was when fold_triangle was called
    stream,             \* parse_triangle: what is left to read of the stream
    file,               \* parse_triangle: the whole content of the file
    expected_row_size   \* parse_triangle: expected_row_size

vars == <<rows, err, call, kind, pc, accum, row_iter, accum_iter, i, old, log,
          result, rows0, stream, file, expected_row_size>>

foldVars == <<kind, pc, accum, row_iter, accum_iter, i, old, log, result, rows0>>
parseVars == <<stream, file, expected_row_size>>

\* ------------------------------------------------------------- Triangle

\* Triangle::height(): the number of rows.
height(t) == Len(t)

\* Triangle::width(): defined as height().
width(t) == height(t)

\* All sequences over S of length lo..hi.
SeqsOf(S, lo, hi) == UNION {[1..n -> S] : n \in lo..hi}

\* The rows offered to append_row: every length from 0 to one more than
\* any accepted row can have.
RowInputs == SeqsOf(RowVals, 0, MaxRows + 1)

\* append_row accepting a row as long as the current height (off by one).
append_row_off_by_one(row) ==
    /\ pc = "idle"
    /\ Len(row) = height(rows) => height(rows) < MaxRows
    /\ call' = <<"append_row", row>>
    /\ IF Len(row) # height(rows)
         THEN /\ err' = "invalid_argument"
              /\ rows' = rows
         ELSE /\ err' = "none"
              /\ rows' = Append(rows, row)
    /\ UNCHANGED <<foldVars, parseVars>>

\* append_row without the size check.
append_row_unchecked(row) ==
    /\ pc = "idle"
    /\ height(rows) < MaxRows
    /\ call' = <<"append_row", row>>
    /\ err' = "none"
    /\ rows' = Append(rows, row)
    /\ UNCHANGED <<foldVars, parseVars>>

\* Triangle::append_row(Row&& row): throws std::invalid_argument unless the
\* row has size height() + 1, and appends it otherwise.  (The first conjunct
\* after pc caps the height of the model.)
append_row(row) ==
    /\ pc = "idle"
    /\ Len(row) = height(rows) + 1 => height(rows) < MaxRows
    /\ call' = <<"append_row", row>>
    /\ IF Len(row) # height(rows) + 1
         THEN /\ err' = "invalid_argument"
              /\ rows' = rows
         ELSE /\ err' = "none"
              /\ rows' = Append(rows, row)
    /\ UNCHANGED <<foldVars, parseVars>>

\* Triangle::at(row, n) = v through the non-const overload, within the
\* bounds of the row (outside them the behaviour is undefined).
at(r, n, v) ==
    /\ pc = "idle"
    /\ r \in 1..height(rows)
    /\ n \in 1..Len(rows[r])
    /\ call' = <<"at", r, n, v>>
    /\ err' = "none"
    /\ rows' = [rows EXCEPT ![r][n] = v]
    /\ UNCHANGED <<foldVars, parseVars>>

\* A default-constructed Triangle, nothing running.
Init ==
    /\ rows = <<>>
    /\ err = "none"
    /\ call = <<"Triangle">>
    /\ kind = "none"
    /\ pc = "idle"
    /\ accum = <<>>
    /\ row_iter = 0
    /\ accum_iter = 0
    /\ i = 0
    /\ old = <<>>
    /\ log = <<>>
    /\ result = <<>>
    /\ rows0 = <<>>
    /\ stream = <<>>
    /\ file = <<>>
    /\ expected_row_size = 0

Next ==
    \/ \E row \in RowInputs : append_row(row)
    \/ \E r \in 1..MaxRows, n \in 1..MaxRows, v \in RowVals : at(r, n, v)

Spec == Init /\ [][Next]_vars

\* C1: append_row(row) appends the row (height grows by one, the last row is
\* the row given, no exception) exactly when the row's length is the current
\* height plus one; for any other length it ends with std::invalid_argument
\* and the Triangle is exactly as it was before the call.
C1_AppendRowContract ==
    [][call'[1] = "append_row" =>
         IF Len(call'[2]) = height(rows) + 1
           THEN /\ rows' = Append(rows, call'[2])
                /\ height(rows') = height(rows) + 1
                /\ err' = "none"
           ELSE /\ rows' = rows
                /\ err' = "invalid_argument"]_vars

\* A row too long was offered to a Triangle that already has rows and was
\* rejected.
C1_Witness ==
    /\ call[1] = "append_row"
    /\ height(rows) >= 1
    /\ Len(call[2]) > height(rows) + 1
    /\ err = "invalid_argument"

\* C2: in every state reached by append_row calls, accepted or rejected, and
\* in-bounds overwrites through at, row i (0-indexed) has exactly i+1
\* elements, and width() is height() and the length of the last row.
C2_ShapeInvariant ==
    /\ \A k \in 1..height(rows) : Len(rows[k]) = k
    /\ width(rows) = height(rows)
    /\ height(rows) > 0 => Len(rows[height(rows)]) = width(rows)

\* An element of the second row was overwritten through at.
C2_Witness ==
    /\ call[1] = "at"
    /\ call[2] = 2
    /\ height(rows) = MaxRows
    /\ rows[call[2]][call[3]] = call[4]

\* -------------------------------------------------------- the evaluators

\* std::max(a, b): b when a < b, else a.
max(a, b) == IF a < b THEN b ELSE a

\* std::min in the place of std::max.
min(a, b) == IF b < a THEN b ELSE a

\* max_path's combine keeping the lesser of the two results.
combine_max_lesser(v, left, right) == v + min(left, right)

\* max_path's combine: the number plus the greater of the two results
\* immediately under it.
combine_max(v, left, right) == v + max(left, right)

\* max_odd_even_path's is_even: n % 2 == 0.  (The remainder of a negative
\* odd int is -1 in C++ and 1 here; it is 0 for the same numbers.)
is_even(n) == n % 2 = 0

\* max_odd_even_path's combine with the parity test of the left result
\* the wrong way round.
combine_odd_even_flipped(v, left, right) ==
    v + max(IF is_even(left) THEN left ELSE 0,
            IF is_even(right) THEN right ELSE 0)

\* max_odd_even_path's combine.
combine_odd_even(v, left, right) ==
    v + max(IF is_even(left) THEN 0 ELSE left,
            IF is_even(right) THEN right ELSE 0)

\* The make_t / combine_t pairs fold_triangle<T> is run with: those of
\* max_path and max_odd_even_path (T = int), and "call_tree", whose T is the
\* term built from the calls themselves, so that two folds agree on it only
\* if they agree for every make_t and combine_t.
Kinds == {"max_path", "max_odd_even_path", "call_tree"}

\* The make_t argument of fold_triangle.
make_t(k, v) ==
    IF k = "call_tree" THEN <<v>> ELSE v

\* The combine_t argument of fold_triangle.
combine_t(k, v, left, right) ==
    CASE k = "max_path" -> combine_max(v, left, right)
      [] k = "max_odd_even_path" -> combine_odd_even(v, left, right)
      [] k = "call_tree" -> <<v, left, right>>

\* -------------------------------------------------------- fold_triangle

\* fold_triangle returning a default T for an empty triangle instead of
\* throwing.
fold_enter_returns_default ==
    /\ pc = "call"
    /\ IF height(rows) = 0
         THEN /\ pc' = "done"
              /\ result' = <<0>>
              /\ UNCHANGED <<err, accum, row_iter, i>>
         ELSE /\ pc' = "leaves"
              /\ accum' = <<>>
              /\ row_iter' = height(rows)
              /\ i' = 0
              /\ UNCHANGED <<err, result>>
    /\ UNCHANGED <<rows, call, kind, accum_iter, old, log, rows0, parseVars>>

\* fold_triangle, lines 156-173: throw on an empty triangle; otherwise an
\* empty accum and row_iter at rows().rbegin(), the bottom row.
fold_enter ==
    /\ pc = "call"
    /\ IF height(rows) = 0
         THEN /\ pc' = "thrown"
              /\ err' = "invalid_argument"
              /\ UNCHANGED <<accum, row_iter, i>>
         ELSE /\ pc' = "leaves"
              /\ accum' = <<>>
              /\ row_iter' = height(rows)
              /\ i' = 0
              /\ UNCHANGED err
    /\ UNCHANGED <<rows, call, kind, accum_iter, old, log, result, rows0,
                   parseVars>>

\* fold_triangle, lines 178-181: one iteration of the loop over the bottom
\* row, accum.emplace_back(make_t(value)).
leaf_step ==
    /\ pc = "leaves"
    /\ i < Len(rows[row_iter])
    /\ LET value == rows[row_iter][i + 1] IN
         /\ accum' = Append(accum, make_t(kind, value))
         /\ log' = Append(log, <<"make_t", row_iter, i + 1>>)
    /\ i' = i + 1
    /\ UNCHANGED <<rows, err, call, kind, pc, row_iter, accum_iter, old,
                   result, rows0, parseVars>>

\* The loop over the rows leaving the top row out.
next_row_skips_top ==
    /\ pc \in {"leaves", "combine"}
    /\ i = Len(rows[row_iter])
    /\ row_iter' = row_iter - 1
    /\ IF row_iter' <= 1
         THEN /\ pc' = "return"
              /\ UNCHANGED <<accum_iter, i, old>>
         ELSE /\ pc' = "combine"
              /\ accum_iter' = 0
              /\ i' = 0
              /\ old' = accum
    /\ UNCHANGED <<rows, err, call, kind, accum, log, result, rows0,
                   parseVars>>

\* fold_triangle, lines 184-189: the row just processed is finished;
\* while (++row_iter != row_end), and accum_iter = accum.begin() when there
\* is a row left.
next_row ==
    /\ pc \in {"leaves", "combine"}
    /\ i = Len(rows[row_iter])
    /\ row_iter' = row_iter - 1
    /\ IF row_iter' = 0
         THEN /\ pc' = "return"
              /\ UNCHANGED <<accum_iter, i, old>>
         ELSE /\ pc' = "combine"
              /\ accum_iter' = 0
              /\ i' = 0
              /\ old' = accum
    /\ UNCHANGED <<rows, err, call, kind, accum, log, result, rows0,
                   parseVars>>

\* The loop body storing the combined value into the triangle's own row as
\* well as into accum.
combine_step_in_triangle ==
    /\ pc = "combine"
    /\ i # Len(rows[row_iter])
    /\ LET value == rows[row_iter][i + 1]
           t == combine_t(kind, value, accum[accum_iter + 1],
                          accum[accum_iter + 2])
       IN  /\ accum' = [accum EXCEPT ![accum_iter + 1] = t]
           /\ rows' = [rows EXCEPT ![row_iter][i + 1] = t]
           /\ log' = Append(log, <<"combine_t", row_iter, i + 1>>)
    /\ accum_iter' = accum_iter + 1
    /\ i' = i + 1
    /\ UNCHANGED <<err, call, kind, pc, row_iter, old, result, rows0,
                   parseVars>>

\* The loop body storing the combined value one slot to the right, over the
\* value the next iteration reads as its left one.
combine_step_writes_next ==
    /\ pc = "combine"
    /\ i # Len(rows[row_iter])
    /\ LET value == rows[row_iter][i + 1] IN
         /\ accum' = [accum EXCEPT ![accum_iter + 2] =
                        combine_t(kind, value, accum[accum_iter + 1],
                                  accum[accum_iter + 2])]
         /\ log' = Append(log, <<"combine_t", row_iter, i + 1>>)
    /\ accum_iter' = accum_iter + 1
    /\ i' = i + 1
    /\ UNCHANGED <<rows, err, call, kind, pc, row_iter, old, result, rows0,
                   parseVars>>

\* fold_triangle, lines 198-204: one iteration of the loop over a row above
\* the bottom: *accum_iter = combine_t(value, *accum_iter,
\* *std::next(accum_iter)); ++accum_iter.
combine_step ==
    /\ pc = "combine"
    /\ i # Len(rows[row_iter])
    /\ LET value == rows[row_iter][i + 1] IN
         /\ accum' = [accum EXCEPT ![accum_iter + 1] =
                        combine_t(kind, value, accum[accum_iter + 1],
                                  accum[accum_iter + 2])]
         /\ log' = Append(log, <<"combine_t", row_iter, i + 1>>)
    /\ accum_iter' = accum_iter + 1
    /\ i' = i + 1
    /\ UNCHANGED <<rows, err, call, kind, pc, row_iter, old, result, rows0,
                   parseVars>>

\* fold_triangle, line 219: return accum.front().
fold_return ==
    /\ pc = "return"
    /\ result' = <<accum[1]>>
    /\ pc' = "done"
    /\ UNCHANGED <<rows, err, call, kind, accum, row_iter, accum_iter, i, old,
                   log, rows0, parseVars>>

\* The triangle of the problem statement.
Example == <<  <<3>>, <<7, 4>>, <<2, 4, 6>>, <<8, 5, 9, 3>>  >>

\* Every Triangle of height h with elements in S.
RECURSIVE TrianglesOfHeight(_, _)
TrianglesOfHeight(S, h) ==
    IF h = 0 THEN {<<>>}
    ELSE {Append(t, row) : t \in TrianglesOfHeight(S, h - 1),
                           row \in [1..h -> S]}

\* The Triangles fold_triangle is run on: the empty one, every one of height
\* up to MaxHeight made of two values of Vals, and the example of the
\* problem statement.
FoldInputs ==
    UNION {TrianglesOfHeight(S, h) : S \in ValPairs, h \in 0..MaxHeight}
      \cup {Example}

\* fold_triangle has just been called on a Triangle with the functions of
\* kind k.
InitFoldOf(k) ==
    /\ rows \in FoldInputs
    /\ rows0 = rows
    /\ kind = k
    /\ pc = "call"
    /\ err = "none"
    /\ call = <<"fold_triangle">>
    /\ accum = <<>>
    /\ row_iter = 0
    /\ accum_iter = 0
    /\ i = 0
    /\ old = <<>>
    /\ log = <<>>
    /\ result = <<>>
    /\ stream = <<>>
    /\ file = <<>>
    /\ expected_row_size = 0

NextFold ==
    \/ fold_enter
    \/ leaf_step
    \/ next_row
    \/ combine_step
    \/ fold_return

\* fold_triangle<T> with make_t and combine_t building the term of their
\* own calls.
SpecFold == InitFoldOf("call_tree") /\ [][NextFold]_vars

\* max_path(triangle).
SpecMaxPath == InitFoldOf("max_path") /\ [][NextFold]_vars

\* max_odd_even_path(triangle).
SpecOddEven == InitFoldOf("max_odd_even_path") /\ [][NextFold]_vars

\* ------------------------------------------------ claims about the fold

\* The greatest element of a non-empty finite set of integers.
Maximum(S) == CHOOSE m \in S : \A x \in S : x <= m

\* Every path from the apex to row h: the position taken in each row, each
\* step going to the same position or to the next one in the row below.
RECURSIVE Paths(_)
Paths(h) ==
    IF h = 1 THEN {<<1>>}
    ELSE UNION {{Append(p, p[h - 1]), Append(p, p[h - 1] + 1)} :
                  p \in Paths(h - 1)}

\* The sum of the values of triangle t on path p.
RECURSIVE PathSum(_, _)
PathSum(t, p) ==
    IF p = <<>> THEN 0
    ELSE LET n == Len(p) IN t[n][p[n]] + PathSum(t, SubSeq(p, 1, n - 1))

\* The greatest sum over all apex-to-base paths of t.
MaxOverPaths(t) == Maximum({PathSum(t, p) : p \in Paths(height(t))})

\* C3: for every non-empty Triangle, max_path returns the maximum over all
\* apex-to-base paths, each step going from position i to position i or i+1
\* of the row below, of the sum of the values on the path; the triangle of
\* the problem statement gives 23.
C3_MaxPathIsMaximum ==
    pc = "done" =>
        /\ result = <<MaxOverPaths(rows)>>
        /\ rows = Example => result = <<23>>

\* max_path has returned on the triangle of the problem statement.
C3_Witness ==
    /\ kind = "max_path"
    /\ pc = "done"
    /\ rows = Example
    /\ result = <<23>>

\* C4: on a Triangle of height 0 fold_triangle ends with
\* std::invalid_argument before make_t or combine_t is called and before
\* anything is put into or read from the accumulator, and no value is
\* returned; here through max_path.
C4_EmptyTriangleThrows ==
    (height(rows) = 0 /\ pc # "call") =>
        /\ pc = "thrown"
        /\ err = "invalid_argument"
        /\ log = <<>>
        /\ accum = <<>>
        /\ result = <<>>

\* max_path was called on the empty Triangle and threw.
C4_Witness ==
    /\ kind = "max_path"
    /\ height(rows) = 0
    /\ pc = "thrown"
    /\ err = "invalid_argument"

\* C5: throughout and after a run of fold_triangle the Triangle is as it was
\* when the function was called: same height, same elements; only accum is
\* written.
C5_TriangleUnchanged ==
    /\ rows = rows0
    /\ height(rows) = height(rows0)

\* The fold has returned after overwriting the front of the accumulator.
C5_Witness ==
    /\ pc = "done"
    /\ height(rows) >= 2
    /\ accum[1] # rows[height(rows)][1]
    /\ rows = rows0

\* The value of the best path from element n of row r of t under the rule of
\* max_odd_even_path's comment: a step to the left (same position of the row
\* below) only onto an odd number, a step to the right (next position) only
\* onto an even number.  A path ends at the bottom or where no step is
\* allowed; with mayStop it may also end anywhere before.
RECURSIVE OddEvenBest(_, _, _, _)
OddEvenBest(t, r, n, mayStop) ==
    LET conts ==
          IF r = height(t) THEN {}
          ELSE (IF is_even(t[r + 1][n]) THEN {}
                ELSE {OddEvenBest(t, r + 1, n, mayStop)})
               \cup
               (IF is_even(t[r + 1][n + 1])
                THEN {OddEvenBest(t, r + 1, n + 1, mayStop)}
                ELSE {})
        ends == IF mayStop \/ conts = {} THEN {0} ELSE {}
    IN  t[r][n] + Maximum(conts \cup ends)

\* C6: for every non-empty Triangle, max_odd_even_path returns the maximum
\* path value under the rule that a path from the apex may only turn left
\* onto an odd number and only go right onto an even number of the triangle,
\* a path that cannot continue ending there with the sum of the numbers it
\* visited (whether or not a path may also end earlier).
C6_OddEvenRule ==
    pc = "done" =>
        result[1] \in {OddEvenBest(rows, 1, 1, FALSE),
                       OddEvenBest(rows, 1, 1, TRUE)}

RECURSIVE CombineCalls(_)
CombineCalls(r) ==
    IF r = 0 THEN <<>>
    ELSE [n \in 1..r |-> <<"combine_t", r, n>>] \o CombineCalls(r - 1)

\* The calls one run on a triangle of height h is to make, in order.
ExpectedCalls(h) ==
    [n \in 1..h |-> <<"make_t", h, n>>] \o CombineCalls(h - 1)

\* Sequence s is a prefix of sequence t.
IsPrefix(s, t) == Len(s) <= Len(t) /\ s = SubSeq(t, 1, Len(s))

\* C9: one run of fold_triangle on a Triangle of height h >= 1 calls make_t
\* exactly once for each of the h bottom-row elements, left to right, then
\* combine_t exactly once for each element of every row above, rows in
\* decreasing order (h*(h-1)/2 calls), never for a bottom-row element, and
\* not at all when h = 1.
C9_CallsExactlyOnce ==
    LET h == height(rows)
        combines == {k \in DOMAIN log : log[k][1] = "combine_t"}
        leaves == {k \in DOMAIN log : log[k][1] = "make_t"}
    IN  /\ pc \in {"leaves", "combine", "return", "done"} =>
              IsPrefix(log, ExpectedCalls(h))
        /\ pc \in {"return", "done"} =>
              /\ log = ExpectedCalls(h)
              /\ Cardinality({log[k] : k \in DOMAIN log}) = Len(log)
              /\ Cardinality(leaves) = h
              /\ 2 * Cardinality(combines) = h * (h - 1)
              /\ \A k \in combines : log[k][2] < h
              /\ \A k \in leaves : log[k][2] = h
              /\ h = 1 => combines = {}

\* A run on a Triangle of at least three rows has returned.
C9_Witness ==
    /\ pc = "done"
    /\ height(rows) >= 3
    /\ Len(log) = Len(ExpectedCalls(height(rows)))

\* The accumulator of row r of t in a fold that allocates a fresh sequence
\* for every row.
RECURSIVE FreshRow(_, _, _)
FreshRow(t, k, r) ==
    IF r = height(t)
    THEN [n \in 1..r |-> make_t(k, t[r][n])]
    ELSE LET below == FreshRow(t, k, r + 1) IN
         [n \in 1..r |-> combine_t(k, t[r][n], below[n], below[n + 1])]

\* C10: while a row is processed in place, every position already written
\* holds combine_t(row[n], old[n], old[n+1]) for the accumulator old as it
\* stood when the row began, and every position not yet written still holds
\* its old value; the value returned is that of a fold with a fresh sequence
\* per row.  Checked with the functions that build the term of their calls,
\* so for every make_t and combine_t.
C10_InPlaceEqualsFresh ==
    /\ pc = "combine" =>
          /\ \A n \in 1..i :
                accum[n] = combine_t(kind, rows[row_iter][n], old[n], old[n + 1])
          /\ \A n \in (i + 1)..Len(accum) : accum[n] = old[n]
          /\ Len(accum) = Len(old)
    /\ pc = "done" => result = <<FreshRow(rows, kind, 1)[1]>>

\* The second position of a row has been computed after the first was
\* overwritten.
C10_Witness ==
    /\ pc = "combine"
    /\ i >= 2
    /\ accum[1] # old[1]
    /\ accum[2] = combine_t(kind, rows[row_iter][2], old[2], old[3])

\* ------------------------------------------------------- parse_triangle

\* The end of a line in the stream.
NL == "\n"

\* What stands between white space on a line: two numerals and something
\* that is no number.
Tokens == {"1", "-2", "x"}

\* The stream as parse_triangle sees it: tokens and line ends.  (A run of
\* blanks between two tokens reads like one blank, so blanks are left out.)
Items == Tokens \cup {NL}

\* Whether operator>>(int&) succeeds on the token.
is_int(tok) == tok \in {"1", "-2"}

\* The int operator>>(int&) extracts from the token.
to_int(tok) == CASE tok = "1" -> 1 [] tok = "-2" -> -2

\* std::getline(stream, row_string) on a stream that is not at its end: the
\* line is everything before the first line end, which is consumed; without
\* a line end it is everything left.
getline(s) ==
    LET ends == {k \in DOMAIN s : s[k] = NL}
        e == IF ends = {} THEN Len(s) + 1
             ELSE CHOOSE k \in ends : \A j \in ends : k <= j
    IN  [line |-> SubSeq(s, 1, e - 1), rest |-> SubSeq(s, e + 1, Len(s))]

\* parse_triangle, lines 287-297: while (row_stream >> value)
\* row.push_back(value) -- the ints up to the end of the line or the first
\* token that is no int.
RECURSIVE read_row(_)
read_row(line) ==
    IF line = <<>> \/ ~is_int(Head(line)) THEN <<>>
    ELSE <<to_int(Head(line))>> \o read_row(Tail(line))

\* The loop body ending the parse at a row of the wrong size and returning
\* the rows read so far.
parse_line_lenient ==
    /\ pc = "parse"
    /\ stream # <<>>
    /\ expected_row_size' = expected_row_size + 1
    /\ LET got == getline(stream)
           row == read_row(got.line)
       IN  /\ stream' = got.rest
           /\ IF Len(row) # height(rows) + 1
                THEN /\ pc' = "returned"
                     /\ result' = <<rows>>
                     /\ UNCHANGED rows
                ELSE /\ rows' = Append(rows, row)
                     /\ UNCHANGED <<pc, result>>
    /\ UNCHANGED <<err, call, kind, accum, row_iter, accum_iter, i, old, log,
                   rows0, file>>

\* parse_triangle, lines 282-301: one iteration of the loop, getline having
\* read a line: the row is read from it and handed to append_row, whose
\* exception ends parse_triangle.
parse_line ==
    /\ pc = "parse"
    /\ stream # <<>>
    /\ expected_row_size' = expected_row_size + 1
    /\ LET got == getline(stream)
           row == read_row(got.line)
       IN  /\ stream' = got.rest
           /\ IF Len(row) # height(rows) + 1
                THEN /\ pc' = "thrown"
                     /\ err' = "invalid_argument"
                     /\ UNCHANGED rows
                ELSE /\ rows' = Append(rows, row)
                     /\ UNCHANGED <<pc, err>>
    /\ UNCHANGED <<call, kind, accum, row_iter, accum_iter, i, old, log,
                   result, rows0, file>>

\* parse_triangle, lines 282 and 305: getline fails at the end of the stream
\* and the triangle is returned.
parse_return ==
    /\ pc = "parse"
    /\ stream = <<>>
    /\ pc' = "returned"
    /\ result' = <<rows>>
    /\ UNCHANGED <<rows, err, call, kind, accum, row_iter, accum_iter, i, old,
                   log, rows0, stream, file, expected_row_size>>

\* parse_triangle has just been called on a stream of at most MaxInput items.
InitParse ==
    /\ file \in SeqsOf(Items, 0, MaxInput)
    /\ stream = file
    /\ expected_row_size = 0
    /\ rows = <<>>
    /\ pc = "parse"
    /\ err = "none"
    /\ call = <<"parse_triangle">>
    /\ kind = "none"
    /\ accum = <<>>
    /\ row_iter = 0
    /\ accum_iter = 0
    /\ i = 0
    /\ old = <<>>
    /\ log = <<>>
    /\ result = <<>>
    /\ rows0 = <<>>

NextParse ==
    \/ parse_line
    \/ parse_return

SpecParse == InitParse /\ [][NextParse]_vars

\* The positions of the line ends of file f.
LineEnds(f) == {k \in DOMAIN f : f[k] = NL}

\* The number of lines of f: one for each line end, and one more for what
\* follows the last line end when anything does.
NumLines(f) ==
    Cardinality(LineEnds(f))
      + (IF f # <<>> /\ f[Len(f)] # NL THEN 1 ELSE 0)

\* The position of the k-th line end of f; 0 for k = 0 and the position
\* after the last item when f has fewer.
NthEnd(f, k) ==
    IF k = 0 THEN 0
    ELSE IF k > Cardinality(LineEnds(f)) THEN Len(f) + 1
    ELSE CHOOSE p \in LineEnds(f) :
            Cardinality({q \in LineEnds(f) : q <= p}) = k

\* The tokens of line k (from 1) of f.
Line(f, k) == SubSeq(f, NthEnd(f, k - 1) + 1, NthEnd(f, k) - 1)

\* The integers parsed from a line: those of its tokens that stand before
\* its first token that is no integer.
ParsedInts(line) ==
    LET bad == {k \in DOMAIN line : ~is_int(line[k])}
        m == IF bad = {} THEN Len(line)
             ELSE (CHOOSE k \in bad : \A j \in bad : k <= j) - 1
    IN  [k \in 1..m |-> to_int(line[k])]

\* The lines of f whose count of parsed integers is not their number.
BadLines(f) == {k \in 1..NumLines(f) : Len(ParsedInts(Line(f, k))) # k}

\* C8: parse_triangle either returns a Triangle whose height is the number
\* of lines of the input and whose row k holds exactly the k integers parsed
\* from line k, in order, or ends with std::invalid_argument at the first
\* line k whose count of parsed integers is not k, blank and trailing empty
\* lines included; it never returns a Triangle built from a prefix of the
\* lines or with a row shorter than its number.
C8_ParseAllOrThrow ==
    /\ pc = "returned" =>
          /\ BadLines(file) = {}
          /\ result = <<rows>>
          /\ height(rows) = NumLines(file)
          /\ expected_row_size = NumLines(file)
          /\ \A k \in 1..height(rows) :
                rows[k] = ParsedInts(Line(file, k)) /\ Len(rows[k]) = k
    /\ pc = "thrown" =>
          /\ BadLines(file) # {}
          /\ err = "invalid_argument"
          /\ result = <<>>
          /\ expected_row_size \in BadLines(file)
          /\ \A k \in BadLines(file) : expected_row_size <= k
    /\ pc = "parse" => result = <<>> /\ err = "none"

\* The parse threw at an empty line that follows a good first line and is
\* followed by more input.
C8_Witness ==
    /\ pc = "thrown"
    /\ height(rows) >= 1
    /\ Line(file, expected_row_size) = <<>>
    /\ stream # <<>>

====
